---- MODULE Spec2Model ----
(***************************************************************************)
(* Cascade_Hashing_Matcher_Regions.cpp of openMVG: the pairwise hashed     *)
(* matching pipeline.  Cascade_Hashing_Matcher_Regions::Match dispatches   *)
(* on the provider's scalar type to impl::Match, which groups the pairs,   *)
(* computes the zero-mean descriptor, builds one hashed description per    *)
(* used image (OpenMP parallel for, unnamed critical section) and matches  *)
(* every group of pairs sharing a first image (OpenMP parallel for over    *)
(* the second images, unnamed critical section around the insertion).      *)
(*                                                                         *)
(* Every iteration of a parallel for is one task of the model; any         *)
(* interleaving of the tasks of one loop is allowed, which covers every    *)
(* thread count and every schedule(dynamic) assignment.  Descriptors are   *)
(* one-dimensional integers, distances are squared differences, the        *)
(* distance ratio is the rational fDistRatio[1] / fDistRatio[2].           *)
(* Descriptor indices are 0-based as in the code; position k of a C++      *)
(* vector is element k+1 of the sequence that models it.                   *)
(***************************************************************************)
EXTENDS Integers, Sequences, FiniteSets, TLC

VARIABLES
  provider,              \* regions_provider: [present, binary, type]
  regions,               \* regions_provider.get(I): image -> region set
  pairs,                 \* the Pair_Set argument
  fDistRatio,            \* f_dist_ratio_ as <<numerator, denominator>>
  map0,                  \* map_PutativesMatches as it was on entry
  map_PutativesMatches,  \* the output collection
  cancel,                \* my_progress_bar->hasBeenCanceled()
  progress,              \* the progress sink: [count, expected, restarts]
  pc,                    \* position of the calling thread
  used_index,            \* std::set<IndexT> used_index
  map_Pairs,             \* first image -> sequence of second images
  hasher,                \* cascade_hasher: [inits, dim]
  zero_mean_descriptor,  \* [sets, value]
  hashed_base_,          \* image -> hashed description
  ibuild,                \* index-build tasks: image -> [pc, snap]
  lock,                  \* owner of the unnamed omp critical section
  rest,                  \* first images whose group is still to be visited
  curI,                  \* first image of the group being matched (0: none)
  task,                  \* J-tasks of the current group
  hist                   \* history: units, queried, knn, ins, lookups, snapshot at cancellation

vars == <<provider, regions, pairs, fDistRatio, map0, map_PutativesMatches,
          cancel, progress, pc, used_index, map_Pairs, hasher,
          zero_mean_descriptor, hashed_base_, ibuild, lock, rest, curI,
          task, hist>>

----------------------------------------------------------------------------
(* Bounds of the model. *)

MaxPairs == 2
MaxVal == 2

Images == {1, 2, 3}
RegionCounts == {0, 1, 2}
Positions == {<<0, 0>>, <<1, 0>>}
ScalarTypes == {"uchar", "float"}
Ratios == {<<1, 2>>, <<1, 1>>}

----------------------------------------------------------------------------
(* Small helpers. *)

Min(S) == CHOOSE x \in S : \A y \in S : x <= y

RECURSIVE SortedSeq(_)
SortedSeq(S) == IF S = {} THEN <<>> ELSE <<Min(S)>> \o SortedSeq(S \ {Min(S)})

Range(s) == {s[k] : k \in DOMAIN s}

EmptyMap == <<>>

(* The region sets of the given scalar types within the bounds; positions
   matter through equality only, and the first one is the origin. *)
RegionSetsOf(types) ==
  UNION {{r \in [type : types, desc : [1..k -> 0..MaxVal], pos : [1..k -> Positions]] :
            k > 0 => r.pos[1] = <<0, 0>>} : k \in RegionCounts}

RegionCount(r) == Len(r.desc)
DescriptorLength(r) == 1
Type_id(r) == r.type
GetRegionsPositions(r) == r.pos

----------------------------------------------------------------------------
(* Exact arithmetic on <<numerator, denominator>>, standing for float. *)

Square(r) == <<r[1] * r[1], r[2] * r[2]>>

RatAdd(a, b) == <<a[1] * b[2] + b[1] * a[2], a[2] * b[2]>>

RECURSIVE RatSum(_)
RatSum(rows) == IF rows = <<>> THEN <<0, 1>> ELSE RatAdd(rows[1], RatSum(Tail(rows)))

(* CascadeHasher::GetZeroMeanDescriptor: the mean row of a matrix. *)
GetZeroMeanDescriptor(rows) ==
  IF rows = <<>> THEN <<0, 1>>
  ELSE <<RatSum(rows)[1], RatSum(rows)[2] * Len(rows)>>

(* The typed matrix view of a region set's raw descriptor buffer. *)
MatOf(r) == r.desc

(* Lines 78-102: one row per used image (an all-zero row for an image with
   no region), reduced once more. *)
ZeroMeanOf(used) ==
  LET order == SortedSeq(used)
      row(I) == IF RegionCount(regions[I]) > 0
                THEN GetZeroMeanDescriptor([k \in 1..RegionCount(regions[I]) |->
                                              <<MatOf(regions[I])[k], 1>>])
                ELSE <<0, 1>>
  IN GetZeroMeanDescriptor([k \in 1..Len(order) |-> row(order[k])])

(* CascadeHasher::CreateHashedDescriptions: opaque, one hashed descriptor
   per row, derived from the matrix and the zero-mean descriptor. *)
CreateHashedDescriptions(mat, zm) == [n |-> Len(mat), of |-> mat, zm |-> zm]

DefaultHashedDescriptions == [n |-> 0, of |-> <<>>, zm |-> <<0, 1>>]

(* std::map::operator[]: a missing key is inserted with a default value. *)
WithKey(m, k) == m @@ (k :> DefaultHashedDescriptions)

Dist(a, b) == (a - b) * (a - b)

(* One query's group of two candidates, or <<>> when the engine retrieves
   fewer than two candidates for it. *)
GroupsOf(q, hb, matb) ==
  {<<>>} \cup
  {g \in (0..(hb.n - 1)) \X (0..(hb.n - 1)) :
      g[1] # g[2] /\ Dist(q, matb[g[1] + 1]) <= Dist(q, matb[g[2] + 1])}

RECURSIVE FlattenIdx(_, _, _)
FlattenIdx(f, i, n) ==
  IF i >= n THEN <<>>
  ELSE (IF f[i] = <<>> THEN <<>>
        ELSE <<[i_ |-> i, j_ |-> f[i][1]], [i_ |-> i, j_ |-> f[i][2]]>>)
       \o FlattenIdx(f, i + 1, n)

RECURSIVE FlattenDist(_, _, _, _, _)
FlattenDist(f, i, n, matq, matb) ==
  IF i >= n THEN <<>>
  ELSE (IF f[i] = <<>> THEN <<>>
        ELSE <<Dist(matq[i + 1], matb[f[i][1] + 1]), Dist(matq[i + 1], matb[f[i][2] + 1])>>)
       \o FlattenDist(f, i + 1, n, matq, matb)

(* CascadeHasher::Match_HashedDescriptions with NN = 2: every answer the
   approximate engine may give.  Queries are visited in ascending order;
   each contributes two candidates (i_ the query index, j_ the base index)
   sorted by ascending distance, or nothing. *)
Match_HashedDescriptions(hq, matq, hb, matb) ==
  LET Q == 0..(hq.n - 1)
      All == UNION {GroupsOf(matq[i + 1], hb, matb) : i \in Q}
      F == {f \in [Q -> All \cup {<<>>}] : \A i \in Q : f[i] \in GroupsOf(matq[i + 1], hb, matb)}
  IN {[indices |-> FlattenIdx(f, 0, hq.n), distances |-> FlattenDist(f, 0, hq.n, matq, matb)] :
        f \in F}

(* matching::NNdistanceRatio: the indices i of the groups of NN distances
   whose first distance is strictly below ratio times the second. *)
RECURSIVE NNdistanceRatioFrom(_, _, _, _)
NNdistanceRatioFrom(d, NN, ratio, i) ==
  IF (i + 1) * NN > Len(d) THEN <<>>
  ELSE (IF d[i * NN + 1] * ratio[2] < ratio[1] * d[i * NN + 2] THEN <<i>> ELSE <<>>)
       \o NNdistanceRatioFrom(d, NN, ratio, i + 1)

NNdistanceRatio(d, NN, ratio) == NNdistanceRatioFrom(d, NN, ratio, 0)

(* IndMatch::getDeduplicated: through a std::set ordered by (i_, j_). *)
IndLess(a, b) == a.i_ < b.i_ \/ (a.i_ = b.i_ /\ a.j_ < b.j_)

RECURSIVE SortedInd(_)
SortedInd(S) ==
  IF S = {} THEN <<>>
  ELSE LET m == CHOOSE x \in S : \A y \in S \ {x} : IndLess(x, y)
       IN <<m>> \o SortedInd(S \ {m})

IndMatch_getDeduplicated(matches) == SortedInd(Range(matches))

(* IndMatchDecorator<float>::getDeduplicated: one match is kept for every
   distinct (position in I, position in J). *)
PositionAt(pos, k) == IF k + 1 \in DOMAIN pos THEN pos[k + 1] ELSE <<-1, -1>>

XY(m, posI, posJ) == <<PositionAt(posI, m.i_), PositionAt(posJ, m.j_)>>

RECURSIVE XYDedupFrom(_, _, _, _)
XYDedupFrom(matches, posI, posJ, seen) ==
  IF matches = <<>> THEN <<>>
  ELSE IF XY(matches[1], posI, posJ) \in seen
       THEN XYDedupFrom(Tail(matches), posI, posJ, seen)
       ELSE <<matches[1]>> \o
            XYDedupFrom(Tail(matches), posI, posJ, seen \cup {XY(matches[1], posI, posJ)})

IndMatchDecorator_getDeduplicated(matches, posI, posJ) == XYDedupFrom(matches, posI, posJ, {})

----------------------------------------------------------------------------
(* The body of one J-task between the query and the insertion. *)

(* The ratio handed to the filter as it is configured. *)
FilterThresholdUnsquared == fDistRatio

(* Line 190: the threshold handed to the ratio filter. *)
FilterThreshold == Square(fDistRatio)

(* Lines 180-190. *)
RatioFilter(distances) == NNdistanceRatio(distances, 2, FilterThreshold)

(* The emission with the candidate's indices in the engine's order. *)
EmitMatchUnswapped(c) == [i_ |-> c.i_, j_ |-> c.j_]

(* Lines 192-198: the accepted groups' nearest neighbour, base index first. *)
EmitMatch(c) == [i_ |-> c.j_, j_ |-> c.i_]

EmitMatches(indices, nn) == [k \in 1..Len(nn) |-> EmitMatch(indices[nn[k] * 2 + 1])]

(* Lines 200-207 without the coordinate deduplication. *)
DeduplicateIndexOnly(matches, I, J) == IndMatch_getDeduplicated(matches)

(* Lines 200-207. *)
Deduplicate(matches, I, J) ==
  IndMatchDecorator_getDeduplicated(IndMatch_getDeduplicated(matches),
                                    GetRegionsPositions(regions[I]),
                                    GetRegionsPositions(regions[J]))

(* Lines 180-207 on one answer of the engine. *)
MatchesOf(ans, I, J) ==
  Deduplicate(EmitMatches(ans.indices, RatioFilter(ans.distances)), I, J)

(* operator[] and assignment in the place of std::map::insert. *)
MapAssign(m, key, matches) == (key :> matches) @@ m

(* Lines 213-220: std::map::insert keeps an entry that is already there. *)
MapInsert(m, key, matches) == m @@ (key :> matches)

(* The insertion without the test of line 213. *)
InsertAlways(m, key, matches) == MapInsert(m, key, matches)

InsertIfNotEmpty(m, key, matches) ==
  IF matches # <<>> THEN MapInsert(m, key, matches) ELSE m

----------------------------------------------------------------------------
(* Cascade_Hashing_Matcher_Regions::Match, lines 228-271. *)

(* The dispatch without the test of line 243. *)
DispatchesBinaryToo ==
  /\ provider.present
  /\ provider.type \in {"uchar", "float"}

(* Lines 240-267: the provider is there, is not binary, and describes
   unsigned char or float regions. *)
Dispatches ==
  /\ provider.present
  /\ ~provider.binary
  /\ provider.type \in {"uchar", "float"}

Dispatch ==
  /\ pc = "entry"
  /\ pc' = IF Dispatches THEN "restart" ELSE "done"
  /\ UNCHANGED <<provider, regions, pairs, fDistRatio, map0, map_PutativesMatches,
                 cancel, progress, used_index, map_Pairs, hasher,
                 zero_mean_descriptor, hashed_base_, ibuild, lock, rest, curI,
                 task, hist>>

----------------------------------------------------------------------------
(* impl::Match, the sequential prologue: lines 47-102. *)

(* Lines 47-49. *)
Restart ==
  /\ pc = "restart"
  /\ progress' = [count |-> 0, expected |-> Cardinality(pairs),
                  restarts |-> progress.restarts + 1]
  /\ pc' = "group"
  /\ UNCHANGED <<provider, regions, pairs, fDistRatio, map0, map_PutativesMatches,
                 cancel, used_index, map_Pairs, hasher,
                 zero_mean_descriptor, hashed_base_, ibuild, lock, rest, curI,
                 task, hist>>

(* The group key canonicalized to the smaller identifier of the pair. *)
GroupKeyCanonical(p) == IF p[1] <= p[2] THEN p[1] ELSE p[2]

(* Lines 56-61: a Pair_Set is iterated in lexicographic order, so a group's
   second images are pushed in ascending order. *)
GroupKey(p) == p[1]

GroupPairs(ps) ==
  [a \in {GroupKey(p) : p \in ps} |-> SortedSeq({p[2] : p \in {q \in ps : GroupKey(q) = a}})]

UsedIndex(ps) == {p[1] : p \in ps} \cup {p[2] : p \in ps}

Group ==
  /\ pc = "group"
  /\ map_Pairs' = GroupPairs(pairs)
  /\ used_index' = UsedIndex(pairs)
  /\ pc' = "init"
  /\ UNCHANGED <<provider, regions, pairs, fDistRatio, map0, map_PutativesMatches,
                 cancel, progress, hasher,
                 zero_mean_descriptor, hashed_base_, ibuild, lock, rest, curI,
                 task, hist>>

(* Lines 65-73. *)
InitHasher ==
  /\ pc = "init"
  /\ hasher' = IF used_index # {}
               THEN [inits |-> hasher.inits + 1,
                     dim |-> DescriptorLength(regions[Min(used_index)])]
               ELSE hasher
  /\ pc' = "zeromean"
  /\ UNCHANGED <<provider, regions, pairs, fDistRatio, map0, map_PutativesMatches,
                 cancel, progress, used_index, map_Pairs,
                 zero_mean_descriptor, hashed_base_, ibuild, lock, rest, curI,
                 task, hist>>

Free == <<"free", 0>>

(* Lines 75-102, and the start of the parallel for of line 108. *)
ZeroMean ==
  /\ pc = "zeromean"
  /\ zero_mean_descriptor' = [sets |-> zero_mean_descriptor.sets + 1,
                              value |-> ZeroMeanOf(used_index)]
  /\ ibuild' = [I \in used_index |-> [pc |-> "wait", snap |-> EmptyMap]]
  /\ pc' = "index"
  /\ UNCHANGED <<provider, regions, pairs, fDistRatio, map0, map_PutativesMatches,
                 cancel, progress, used_index, map_Pairs, hasher,
                 hashed_base_, lock, rest, curI, task, hist>>

----------------------------------------------------------------------------
(* The index-build tasks: lines 108-126. *)

(* IndexEnter without the critical section of line 120. *)
IndexEnterUnserialized(I) ==
  /\ pc = "index"
  /\ I \in DOMAIN ibuild
  /\ ibuild[I].pc = "wait"
  /\ lock' = <<"index", I>>
  /\ ibuild' = [ibuild EXCEPT ![I] = [pc |-> "crit", snap |-> hashed_base_]]
  /\ UNCHANGED <<provider, regions, pairs, fDistRatio, map0, map_PutativesMatches,
                 cancel, progress, pc, used_index, map_Pairs, hasher,
                 zero_mean_descriptor, hashed_base_, rest, curI, task, hist>>

(* Line 120: entering the critical section. *)
IndexEnter(I) ==
  /\ pc = "index"
  /\ I \in DOMAIN ibuild
  /\ ibuild[I].pc = "wait"
  /\ lock = Free
  /\ lock' = <<"index", I>>
  /\ ibuild' = [ibuild EXCEPT ![I] = [pc |-> "crit", snap |-> hashed_base_]]
  /\ UNCHANGED <<provider, regions, pairs, fDistRatio, map0, map_PutativesMatches,
                 cancel, progress, pc, used_index, map_Pairs, hasher,
                 zero_mean_descriptor, hashed_base_, rest, curI, task, hist>>

(* The index build that leaves out the images without region. *)
IndexWriteSkipEmpty(I) ==
  /\ pc = "index"
  /\ I \in DOMAIN ibuild
  /\ ibuild[I].pc = "crit"
  /\ hashed_base_' =
       IF RegionCount(regions[I]) = 0 THEN ibuild[I].snap
       ELSE (I :> CreateHashedDescriptions(MatOf(regions[I]), zero_mean_descriptor.value))
            @@ ibuild[I].snap
  /\ lock' = Free
  /\ ibuild' = [ibuild EXCEPT ![I] = [pc |-> "done", snap |-> EmptyMap]]
  /\ hist' = [hist EXCEPT !.built = IF RegionCount(regions[I]) = 0 THEN hist.built
                                    ELSE IF I \in DOMAIN hist.built
                                    THEN [hist.built EXCEPT ![I] = @ + 1]
                                    ELSE hist.built @@ (I :> 1)]
  /\ UNCHANGED <<provider, regions, pairs, fDistRatio, map0, map_PutativesMatches,
                 cancel, progress, pc, used_index, map_Pairs, hasher,
                 zero_mean_descriptor, rest, curI, task>>

(* Lines 123-124: operator[] followed by a move assignment. *)
IndexWrite(I) ==
  /\ pc = "index"
  /\ I \in DOMAIN ibuild
  /\ ibuild[I].pc = "crit"
  /\ hashed_base_' =
       (I :> CreateHashedDescriptions(MatOf(regions[I]), zero_mean_descriptor.value))
       @@ ibuild[I].snap
  /\ lock' = Free
  /\ ibuild' = [ibuild EXCEPT ![I] = [pc |-> "done", snap |-> EmptyMap]]
  /\ hist' = [hist EXCEPT !.built = IF I \in DOMAIN hist.built
                                    THEN [hist.built EXCEPT ![I] = @ + 1]
                                    ELSE hist.built @@ (I :> 1)]
  /\ UNCHANGED <<provider, regions, pairs, fDistRatio, map0, map_PutativesMatches,
                 cancel, progress, pc, used_index, map_Pairs, hasher,
                 zero_mean_descriptor, rest, curI, task>>

(* The end of the parallel for of line 108 without its barrier. *)
IndexDoneNoBarrier ==
  /\ pc = "index"
  /\ pc' = "match"
  /\ rest' = DOMAIN map_Pairs
  /\ UNCHANGED <<provider, regions, pairs, fDistRatio, map0, map_PutativesMatches,
                 cancel, progress, used_index, map_Pairs, hasher,
                 zero_mean_descriptor, hashed_base_, ibuild, lock, curI, task, hist>>

(* Line 126: the implicit barrier at the end of the parallel for. *)
IndexDone ==
  /\ pc = "index"
  /\ \A I \in DOMAIN ibuild : ibuild[I].pc = "done"
  /\ pc' = "match"
  /\ rest' = DOMAIN map_Pairs
  /\ UNCHANGED <<provider, regions, pairs, fDistRatio, map0, map_PutativesMatches,
                 cancel, progress, used_index, map_Pairs, hasher,
                 zero_mean_descriptor, hashed_base_, ibuild, lock, curI, task, hist>>

----------------------------------------------------------------------------
(* The loop over the groups: lines 129-147 and the barrier of line 223. *)

NoTask == <<>>

NewTask(J) ==
  [pc |-> "todo", J |-> J, indices |-> <<>>, distances |-> <<>>,
   nn |-> <<>>, matches |-> <<>>, snap |-> EmptyMap, reg |-> 0]

(* The progress sink's operator+=, by the thread that runs alone. *)
Advance(p, n) == [p EXCEPT !.count = @ + n]

CountUnits(u, ps) == [q \in DOMAIN u |-> IF q \in ps THEN u[q] + 1 ELSE u[q]]

(* The loop over the groups without the break of lines 131-132. *)
GroupCancelledNoBreak ==
  /\ pc = "match"
  /\ curI = 0
  /\ rest # {}
  /\ cancel
  /\ LET I == Min(rest)
         indexToCompare == map_Pairs[I]
     IN /\ curI' = I
        /\ task' = [j \in 1..Len(indexToCompare) |->
                      [pc |-> "todo", J |-> indexToCompare[j], indices |-> <<>>,
                       distances |-> <<>>, nn |-> <<>>, matches |-> <<>>,
                       snap |-> EmptyMap, reg |-> 0]]
        /\ rest' = rest \ {I}
  /\ UNCHANGED <<provider, regions, pairs, fDistRatio, map0, map_PutativesMatches,
                 cancel, progress, pc, used_index, map_Pairs, hasher,
                 zero_mean_descriptor, hashed_base_, ibuild, lock, hist>>

(* Lines 131-132: cancellation seen at the start of a group. *)
GroupCancelled ==
  /\ pc = "match"
  /\ curI = 0
  /\ rest # {}
  /\ cancel
  /\ pc' = "done"
  /\ UNCHANGED <<provider, regions, pairs, fDistRatio, map0, map_PutativesMatches,
                 cancel, progress, used_index, map_Pairs, hasher,
                 zero_mean_descriptor, hashed_base_, ibuild, lock, rest, curI,
                 task, hist>>

(* The skip of a first image without region, without the continue of
   line 139: the group's J-tasks are started after the units are counted. *)
GroupSkipEmptyNoContinue ==
  /\ pc = "match"
  /\ curI = 0
  /\ rest # {}
  /\ ~cancel
  /\ LET I == Min(rest)
         indexToCompare == map_Pairs[I]
     IN /\ RegionCount(regions[I]) = 0
        /\ progress' = Advance(progress, Len(indexToCompare))
        /\ hist' = [hist EXCEPT
                      !.units = CountUnits(@, {<<I, indexToCompare[j]>> :
                                                 j \in 1..Len(indexToCompare)}),
                      !.outcome = @ @@ [p \in {<<I, indexToCompare[j]>> :
                                                 j \in 1..Len(indexToCompare)} |->
                                          "SKIPPED_EMPTY_I"]]
        /\ curI' = I
        /\ task' = [j \in 1..Len(indexToCompare) |-> NewTask(indexToCompare[j])]
        /\ rest' = rest \ {I}
  /\ UNCHANGED <<provider, regions, pairs, fDistRatio, map0, map_PutativesMatches,
                 cancel, pc, used_index, map_Pairs, hasher,
                 zero_mean_descriptor, hashed_base_, ibuild, lock>>

(* The skip of a first image without region that counts one unit for the
   whole group. *)
GroupSkipEmptyOneUnit ==
  /\ pc = "match"
  /\ curI = 0
  /\ rest # {}
  /\ ~cancel
  /\ LET I == Min(rest)
         indexToCompare == map_Pairs[I]
     IN /\ RegionCount(regions[I]) = 0
        /\ progress' = Advance(progress, 1)
        /\ hist' = [hist EXCEPT
                      !.units = CountUnits(@, {<<I, indexToCompare[1]>>}),
                      !.outcome = @ @@ [p \in {<<I, indexToCompare[j]>> :
                                                 j \in 1..Len(indexToCompare)} |->
                                          "SKIPPED_EMPTY_I"],
                      !.finished = @ \cup {I}]
        /\ rest' = rest \ {I}
  /\ UNCHANGED <<provider, regions, pairs, fDistRatio, map0, map_PutativesMatches,
                 cancel, pc, used_index, map_Pairs, hasher,
                 zero_mean_descriptor, hashed_base_, ibuild, lock, curI, task>>

(* Lines 133-140: a first image without region. *)
GroupSkipEmpty ==
  /\ pc = "match"
  /\ curI = 0
  /\ rest # {}
  /\ ~cancel
  /\ LET I == Min(rest)
         indexToCompare == map_Pairs[I]
     IN /\ RegionCount(regions[I]) = 0
        /\ progress' = Advance(progress, Len(indexToCompare))
        /\ hist' = [hist EXCEPT
                      !.units = CountUnits(@, {<<I, indexToCompare[j]>> :
                                                 j \in 1..Len(indexToCompare)}),
                      !.outcome = @ @@ [p \in {<<I, indexToCompare[j]>> :
                                                 j \in 1..Len(indexToCompare)} |->
                                          "SKIPPED_EMPTY_I"],
                      !.finished = @ \cup {I}]
        /\ rest' = rest \ {I}
  /\ UNCHANGED <<provider, regions, pairs, fDistRatio, map0, map_PutativesMatches,
                 cancel, pc, used_index, map_Pairs, hasher,
                 zero_mean_descriptor, hashed_base_, ibuild, lock, curI, task>>

(* The start of a group without the test of line 136. *)
GroupStartUnchecked ==
  /\ pc = "match"
  /\ curI = 0
  /\ rest # {}
  /\ ~cancel
  /\ LET I == Min(rest)
         indexToCompare == map_Pairs[I]
     IN /\ curI' = I
        /\ task' = [j \in 1..Len(indexToCompare) |-> NewTask(indexToCompare[j])]
        /\ rest' = rest \ {I}
  /\ UNCHANGED <<provider, regions, pairs, fDistRatio, map0, map_PutativesMatches,
                 cancel, progress, pc, used_index, map_Pairs, hasher,
                 zero_mean_descriptor, hashed_base_, ibuild, lock, hist>>

(* Lines 133-151: the parallel for over the second images starts. *)
GroupStart ==
  /\ pc = "match"
  /\ curI = 0
  /\ rest # {}
  /\ ~cancel
  /\ LET I == Min(rest)
         indexToCompare == map_Pairs[I]
     IN /\ RegionCount(regions[I]) # 0
        /\ curI' = I
        /\ task' = [j \in 1..Len(indexToCompare) |-> NewTask(indexToCompare[j])]
        /\ rest' = rest \ {I}
  /\ UNCHANGED <<provider, regions, pairs, fDistRatio, map0, map_PutativesMatches,
                 cancel, progress, pc, used_index, map_Pairs, hasher,
                 zero_mean_descriptor, hashed_base_, ibuild, lock, hist>>

(* Line 223: the implicit barrier; the next group starts after every J-task. *)
GroupJoined == \A j \in DOMAIN task : task[j].pc = "done"

GroupEnd ==
  /\ pc = "match"
  /\ curI # 0
  /\ GroupJoined
  /\ curI' = 0
  /\ task' = NoTask
  /\ hist' = [hist EXCEPT !.finished = @ \cup {curI}]
  /\ UNCHANGED <<provider, regions, pairs, fDistRatio, map0, map_PutativesMatches,
                 cancel, progress, pc, used_index, map_Pairs, hasher,
                 zero_mean_descriptor, hashed_base_, ibuild, lock, rest>>

(* Line 224: no group is left. *)
MatchDone ==
  /\ pc = "match"
  /\ curI = 0
  /\ rest = {}
  /\ pc' = "done"
  /\ UNCHANGED <<provider, regions, pairs, fDistRatio, map0, map_PutativesMatches,
                 cancel, progress, used_index, map_Pairs, hasher,
                 zero_mean_descriptor, hashed_base_, ibuild, lock, rest, curI,
                 task, hist>>

----------------------------------------------------------------------------
(* One J-task: lines 151-223. *)

AtTask(j, where) ==
  /\ pc = "match"
  /\ curI # 0
  /\ j \in DOMAIN task
  /\ task[j].pc = where

(* The skip on cancellation with an increment before its continue, as the
   skip on a type mismatch has. *)
TaskSkipCancelledCounted(j) ==
  /\ AtTask(j, "todo")
  /\ cancel
  /\ task' = [task EXCEPT ![j].pc = "inc"]
  /\ hist' = [hist EXCEPT !.outcome = @ @@ (<<curI, task[j].J>> :> "SKIPPED_CANCELLED")]
  /\ UNCHANGED <<provider, regions, pairs, fDistRatio, map0, map_PutativesMatches,
                 cancel, progress, pc, used_index, map_Pairs, hasher,
                 zero_mean_descriptor, hashed_base_, ibuild, lock, rest, curI>>

(* Lines 153-154. *)
TaskSkipCancelled(j) ==
  /\ AtTask(j, "todo")
  /\ cancel
  /\ task' = [task EXCEPT ![j].pc = "done"]
  /\ hist' = [hist EXCEPT !.outcome = @ @@ (<<curI, task[j].J>> :> "SKIPPED_CANCELLED")]
  /\ UNCHANGED <<provider, regions, pairs, fDistRatio, map0, map_PutativesMatches,
                 cancel, progress, pc, used_index, map_Pairs, hasher,
                 zero_mean_descriptor, hashed_base_, ibuild, lock, rest, curI>>

(* The type test without the increment of line 160. *)
TaskTypeMismatchUncounted(j) ==
  /\ AtTask(j, "todo")
  /\ ~cancel
  /\ Type_id(regions[curI]) # Type_id(regions[task[j].J])
  /\ task' = [task EXCEPT ![j].pc = "done"]
  /\ hist' = [hist EXCEPT !.outcome = @ @@ (<<curI, task[j].J>> :> "SKIPPED_TYPE_MISMATCH")]
  /\ UNCHANGED <<provider, regions, pairs, fDistRatio, map0, map_PutativesMatches,
                 cancel, progress, pc, used_index, map_Pairs, hasher,
                 zero_mean_descriptor, hashed_base_, ibuild, lock, rest, curI>>

(* Lines 155-162: the increment of line 160 is TaskIncRead and TaskIncWrite. *)
TaskTypeMismatch(j) ==
  /\ AtTask(j, "todo")
  /\ ~cancel
  /\ Type_id(regions[curI]) # Type_id(regions[task[j].J])
  /\ task' = [task EXCEPT ![j].pc = "inc"]
  /\ hist' = [hist EXCEPT !.outcome = @ @@ (<<curI, task[j].J>> :> "SKIPPED_TYPE_MISMATCH")]
  /\ UNCHANGED <<provider, regions, pairs, fDistRatio, map0, map_PutativesMatches,
                 cancel, progress, pc, used_index, map_Pairs, hasher,
                 zero_mean_descriptor, hashed_base_, ibuild, lock, rest, curI>>

(* Lines 164-207: the query (J's hashed description and matrix as the query,
   I's as the base), the ratio filter, the emission and the deduplication;
   all of it on data local to the task or read-only. *)
TaskCompute(j) ==
  /\ AtTask(j, "todo")
  /\ ~cancel
  /\ Type_id(regions[curI]) = Type_id(regions[task[j].J])
  /\ LET I == curI
         J == task[j].J
         hb == WithKey(WithKey(hashed_base_, J), I)
     IN /\ hashed_base_' = hb
        /\ \E ans \in Match_HashedDescriptions(hb[J], MatOf(regions[J]),
                                               hb[I], MatOf(regions[I])) :
             /\ task' = [task EXCEPT ![j] =
                           [@ EXCEPT !.pc = "lock",
                                     !.indices = ans.indices,
                                     !.distances = ans.distances,
                                     !.nn = RatioFilter(ans.distances),
                                     !.matches = MatchesOf(ans, I, J)]]
             /\ hist' = [hist EXCEPT !.queried = @ \cup {<<I, J>>},
                                     !.knn = @ @@ (<<I, J>> :> ans),
                                     !.misses = @ \cup ({I, J} \ DOMAIN hashed_base_)]
  /\ UNCHANGED <<provider, regions, pairs, fDistRatio, map0, map_PutativesMatches,
                 cancel, progress, pc, used_index, map_Pairs, hasher,
                 zero_mean_descriptor, ibuild, lock, rest, curI>>

(* TaskEnter without the critical section of line 210. *)
TaskEnterUnserialized(j) ==
  /\ AtTask(j, "lock")
  /\ lock' = <<"match", j>>
  /\ task' = [task EXCEPT ![j].pc = "crit", ![j].snap = map_PutativesMatches]
  /\ UNCHANGED <<provider, regions, pairs, fDistRatio, map0, map_PutativesMatches,
                 cancel, progress, pc, used_index, map_Pairs, hasher,
                 zero_mean_descriptor, hashed_base_, ibuild, rest, curI, hist>>

(* Line 210: entering the critical section. *)
TaskEnter(j) ==
  /\ AtTask(j, "lock")
  /\ lock = Free
  /\ lock' = <<"match", j>>
  /\ task' = [task EXCEPT ![j].pc = "crit", ![j].snap = map_PutativesMatches]
  /\ UNCHANGED <<provider, regions, pairs, fDistRatio, map0, map_PutativesMatches,
                 cancel, progress, pc, used_index, map_Pairs, hasher,
                 zero_mean_descriptor, hashed_base_, ibuild, rest, curI, hist>>

(* The key with the second image first. *)
TaskKeySwapped(j) == <<task[j].J, curI>>

(* Lines 212-221. *)
TaskKey(j) == <<curI, task[j].J>>

TaskInsert(j) ==
  /\ AtTask(j, "crit")
  /\ map_PutativesMatches' = InsertIfNotEmpty(task[j].snap, TaskKey(j), task[j].matches)
  /\ lock' = Free
  /\ task' = [task EXCEPT ![j].pc = "inc", ![j].snap = EmptyMap]
  /\ hist' = [hist EXCEPT
                !.ins = IF task[j].matches # <<>>
                        THEN [@ EXCEPT ![<<curI, task[j].J>>] = @ + 1] ELSE @,
                !.outcome = @ @@ (<<curI, task[j].J>> :>
                                    IF task[j].matches # <<>> THEN "INSERTED"
                                    ELSE "SKIPPED_EMPTY_RESULT")]
  /\ UNCHANGED <<provider, regions, pairs, fDistRatio, map0,
                 cancel, progress, pc, used_index, map_Pairs, hasher,
                 zero_mean_descriptor, hashed_base_, ibuild, rest, curI>>

(* Lines 160 and 222: the pre-increment of the progress sink, outside of any critical
   section: the read and the write of the count are two steps. *)
TaskIncRead(j) ==
  /\ AtTask(j, "inc")
  /\ task' = [task EXCEPT ![j].pc = "incw", ![j].reg = progress.count]
  /\ UNCHANGED <<provider, regions, pairs, fDistRatio, map0, map_PutativesMatches,
                 cancel, progress, pc, used_index, map_Pairs, hasher,
                 zero_mean_descriptor, hashed_base_, ibuild, lock, rest, curI, hist>>

TaskIncWrite(j) ==
  /\ AtTask(j, "incw")
  /\ progress' = [progress EXCEPT !.count = task[j].reg + 1]
  /\ task' = [task EXCEPT ![j].pc = "done", ![j].reg = 0]
  /\ hist' = [hist EXCEPT !.units = CountUnits(@, {<<curI, task[j].J>>})]
  /\ UNCHANGED <<provider, regions, pairs, fDistRatio, map0, map_PutativesMatches,
                 cancel, pc, used_index, map_Pairs, hasher,
                 zero_mean_descriptor, hashed_base_, ibuild, lock, rest, curI>>

----------------------------------------------------------------------------
(* The progress sink's owner requests cancellation; the request stays. *)

FinishedGroups == hist.finished

Cancel ==
  /\ ~cancel
  /\ pc \notin {"entry", "done"}
  /\ cancel' = TRUE
  /\ hist' = [hist EXCEPT !.atCancel =
                [set |-> TRUE, curI |-> curI, finished |-> FinishedGroups,
                 map |-> map_PutativesMatches]]
  /\ UNCHANGED <<provider, regions, pairs, fDistRatio, map0, map_PutativesMatches,
                 progress, pc, used_index, map_Pairs, hasher,
                 zero_mean_descriptor, hashed_base_, ibuild, lock, rest, curI, task>>

----------------------------------------------------------------------------
(* The inputs. *)

AllPairs == {p \in Images \X Images : p[1] # p[2]}

(* Unordered pairs without self-pair, each recorded once, in either order. *)
PairSets ==
  {ps \in SUBSET AllPairs :
     /\ Cardinality(ps) <= MaxPairs
     /\ \A p \in ps : <<p[2], p[1]>> \notin ps}

Providers ==
  {[present |-> FALSE, binary |-> FALSE, type |-> "none"]} \cup
  [present : {TRUE}, binary : BOOLEAN, type : {"uchar", "float", "double"}]

RsEmpty == [type |-> "uchar", desc |-> <<>>, pos |-> <<>>]
RsA == [type |-> "uchar", desc |-> <<0, 2>>, pos |-> <<<<0, 0>>, <<1, 0>>>>]
RsB == [type |-> "float", desc |-> <<0, 2>>, pos |-> <<<<0, 0>>, <<1, 0>>>>]
Catalogue == {RsEmpty, RsA, RsB}

PreMap == (<<1, 2>> :> <<[i_ |-> 7, j_ |-> 7]>>)

NotCancelled == [set |-> FALSE, curI |-> 0, finished |-> {}, map |-> EmptyMap]

InitWith(P, R, PS, FR, M0) ==
  /\ provider \in P
  /\ regions \in R
  /\ pairs \in PS
  /\ fDistRatio \in FR
  /\ map0 \in M0
  /\ map_PutativesMatches = map0
  /\ cancel = FALSE
  /\ progress = [count |-> 0, expected |-> 0, restarts |-> 0]
  /\ pc = "entry"
  /\ used_index = {}
  /\ map_Pairs = EmptyMap
  /\ hasher = [inits |-> 0, dim |-> 0]
  /\ zero_mean_descriptor = [sets |-> 0, value |-> <<0, 1>>]
  /\ hashed_base_ = EmptyMap
  /\ ibuild = EmptyMap
  /\ lock = Free
  /\ rest = {}
  /\ curI = 0
  /\ task = NoTask
  /\ hist = [units |-> [p \in pairs |-> 0], queried |-> {}, knn |-> EmptyMap,
             ins |-> [p \in pairs |-> 0], built |-> EmptyMap, misses |-> {},
             outcome |-> EmptyMap, finished |-> {}, atCancel |-> NotCancelled]

(* Several pairs over a small catalogue of region sets. *)
Init == InitWith(Providers, [Images -> Catalogue], PairSets, {<<1, 2>>}, {EmptyMap, PreMap})

(* One pair over every region set within the bounds. *)
InitTask ==
  InitWith({[present |-> TRUE, binary |-> FALSE, type |-> "uchar"]},
           {r \in [Images -> RegionSetsOf(ScalarTypes)] :
              /\ r[1].type = "uchar"
              /\ \A I \in Images \ {1, 2} : r[I] = RsEmpty},
           {{<<1, 2>>}}, Ratios, {EmptyMap})

Next ==
  \/ Dispatch
  \/ Restart
  \/ Group
  \/ InitHasher
  \/ ZeroMean
  \/ \E I \in Images : IndexEnter(I)
  \/ \E I \in Images : IndexWrite(I)
  \/ IndexDone
  \/ GroupCancelled
  \/ GroupSkipEmpty
  \/ GroupStart
  \/ GroupEnd
  \/ MatchDone
  \/ \E j \in DOMAIN task : TaskSkipCancelled(j)
  \/ \E j \in DOMAIN task : TaskTypeMismatch(j)
  \/ \E j \in DOMAIN task : TaskCompute(j)
  \/ \E j \in DOMAIN task : TaskEnter(j)
  \/ \E j \in DOMAIN task : TaskInsert(j)
  \/ \E j \in DOMAIN task : TaskIncRead(j)
  \/ \E j \in DOMAIN task : TaskIncWrite(j)
  \/ Cancel

Spec == Init /\ [][Next]_vars

SpecTask == InitTask /\ [][Next]_vars

(* The steps of the program itself: every step but the request of
   cancellation, which comes from the owner of the progress sink.  The
   threads of the parallel loops and the thread that runs the sequential
   parts are scheduled as long as one of them has a step to take. *)
Run == Next /\ cancel' = cancel

(* The runs whose termination is checked: one provider that is dispatched
   and one that is not, two assignments of region sets (one with an image
   without region, one with two scalar types), a collection that is empty on
   entry. *)
InitFair ==
  InitWith({[present |-> TRUE, binary |-> b, type |-> "uchar"] : b \in BOOLEAN},
           {<<RsA, RsA, RsEmpty>>, <<RsA, RsB, RsA>>}, PairSets, {<<1, 2>>}, {EmptyMap})

SpecFair == InitFair /\ [][Next]_vars /\ WF_vars(Run)

----------------------------------------------------------------------------
(* Vocabulary of the properties. *)

Count(I) == RegionCount(regions[I])

(* The three cases in which the matcher declines to run. *)
NoProvider == ~provider.present
BinaryProvider == provider.present /\ provider.binary
OtherScalar == provider.present /\ ~provider.binary /\ provider.type \notin {"uchar", "float"}
Declined == NoProvider \/ BinaryProvider \/ OtherScalar

SameType(p) == Type_id(regions[p[1]]) = Type_id(regions[p[2]])

(* The pair's J-task has passed line 222 or one of its continue statements,
   or its group was skipped as a whole. *)
TaskOver(p) ==
  \/ p[1] \in hist.finished
  \/ /\ curI = p[1]
     /\ \E j \in DOMAIN task : task[j].J = p[2] /\ task[j].pc = "done"

(* What lines 180-207 make of the engine's answer for the pair. *)
ExpectedMatches(p) ==
  IF Count(p[1]) = 0 \/ ~SameType(p) \/ p \notin DOMAIN hist.knn THEN <<>>
  ELSE MatchesOf(hist.knn[p], p[1], p[2])

(* The run added these keys to the collection it was given. *)
AddedKeys == {k \in DOMAIN map_PutativesMatches : k \notin DOMAIN map0}

----------------------------------------------------------------------------
(* C1: with no cancellation and an output collection that starts empty, the
   final collection is a function of the provider, the pairs, the ratio and
   the engine's answers alone, whatever the interleaving of the tasks: its
   keys are the pairs with a non-empty result and each key holds that result;
   every pair with regions in I and equal scalar types was queried. *)
C1_FinalContentDetermined ==
  (pc = "done" /\ ~Declined /\ ~cancel /\ map0 = EmptyMap) =>
    /\ \A p \in pairs : (Count(p[1]) # 0 /\ SameType(p)) => p \in hist.queried
    /\ DOMAIN map_PutativesMatches = {p \in pairs : ExpectedMatches(p) # <<>>}
    /\ \A p \in DOMAIN map_PutativesMatches : map_PutativesMatches[p] = ExpectedMatches(p)

(* Two J-tasks of one group have both inserted, and the run is over. *)
C1_Witness ==
  /\ pc = "done" /\ ~Declined /\ ~cancel /\ map0 = EmptyMap
  /\ \E p, q \in DOMAIN map_PutativesMatches : p # q /\ p[1] = q[1]

(* C2: no step overwrites, modifies or removes an entry that is present, and
   the insertion of line 215 is executed at most once for every key. *)
C2_InsertOnce ==
  [][/\ \A k \in DOMAIN map_PutativesMatches :
          /\ k \in DOMAIN map_PutativesMatches'
          /\ map_PutativesMatches'[k] = map_PutativesMatches[k]
     /\ \A p \in pairs' : hist'.ins[p] <= 1]_vars

(* The insertion was executed for a key that the collection already held. *)
C2_Witness ==
  /\ map0 = PreMap
  /\ <<1, 2>> \in pairs
  /\ hist.ins[<<1, 2>>] = 1
  /\ map_PutativesMatches[<<1, 2>>] = PreMap[<<1, 2>>]

(* C3: in a run that starts with an empty collection, every key is a pair of
   the Pair_Set as it was given (first component first) and every stored
   list is non-empty. *)
C3_KeysArePairsListsNonEmpty ==
  map0 = EmptyMap =>
    \A k \in DOMAIN map_PutativesMatches :
      /\ k \in pairs
      /\ map_PutativesMatches[k] # <<>>

(* An entry is stored under a pair recorded with its larger image first. *)
C3_Witness ==
  /\ map0 = EmptyMap
  /\ \E k \in DOMAIN map_PutativesMatches : k[1] > k[2]

(* C4: for a pair with an image without region, the insertion of line 215 is
   never executed and the collection holds an entry for the pair only if it
   held it on entry (never, in a run that starts empty); with an empty I the
   pair is never queried, with an empty J the engine returns no candidate. *)
C4_EmptyImageNoEntry ==
  \A p \in pairs :
    (Count(p[1]) = 0 \/ Count(p[2]) = 0) =>
      /\ hist.ins[p] = 0
      /\ p \notin AddedKeys
      /\ (map0 = EmptyMap => p \notin DOMAIN map_PutativesMatches)
      /\ (Count(p[1]) = 0 => p \notin hist.queried)
      /\ (p \in DOMAIN hist.knn /\ Count(p[2]) = 0) => hist.knn[p].indices = <<>>

(* A pair with regions in I and none in J went through the query and the
   insertion step, and a pair with an empty I was skipped with its group. *)
C4_Witness ==
  /\ pc = "done"
  /\ \E p \in pairs :
       /\ Count(p[1]) # 0 /\ Count(p[2]) = 0
       /\ p \in hist.queried
       /\ hist.outcome[p] = "SKIPPED_EMPTY_RESULT"
  /\ \E p \in pairs :
       /\ Count(p[1]) = 0
       /\ p \in DOMAIN hist.outcome
       /\ hist.outcome[p] = "SKIPPED_EMPTY_I"

(* C5: a pair whose region sets differ in scalar type is never queried and
   never inserted; its task counts one unit of progress, no more, and one
   exactly once the task is over; the other pairs of its group are still
   queried and counted when cancellation is not requested. *)
C5_TypeMismatchSkipped ==
  \A p \in pairs :
    ~SameType(p) =>
      /\ p \notin hist.queried
      /\ hist.ins[p] = 0
      /\ p \notin AddedKeys
      /\ hist.units[p] <= 1
      /\ (p \in DOMAIN hist.outcome /\ hist.outcome[p] = "SKIPPED_TYPE_MISMATCH" /\ TaskOver(p))
           => hist.units[p] = 1
      /\ (p[1] \in hist.finished /\ ~cancel /\ Count(p[1]) # 0) =>
           \A q \in pairs :
             (q[1] = p[1] /\ SameType(q)) => (q \in hist.queried /\ hist.units[q] = 1)

(* A mismatched pair was skipped and a pair of the same group was queried. *)
C5_Witness ==
  \E p, q \in pairs :
    /\ ~SameType(p) /\ SameType(q) /\ p[1] = q[1]
    /\ p \in DOMAIN hist.outcome /\ hist.outcome[p] = "SKIPPED_TYPE_MISMATCH"
    /\ p[1] \in hist.finished
    /\ ~cancel
    /\ q \in hist.queried
    /\ hist.units[p] = 1

(* The groups of two distances in a J-task's answer, and the test of the
   claim written out on the configured ratio. *)
GroupIds(t) == 0..((Len(t.distances) \div 2) - 1)

D1(t, g) == t.distances[2 * g + 1]

D2(t, g) == t.distances[2 * g + 2]

BelowRatio(d1, d2) ==
  d1 * fDistRatio[2] * fDistRatio[2] < fDistRatio[1] * fDistRatio[1] * d2

OnBoundary(d1, d2) ==
  d1 * fDistRatio[2] * fDistRatio[2] = fDistRatio[1] * fDistRatio[1] * d2

Accepted(t) == {g \in GroupIds(t) : \E k \in DOMAIN t.nn : t.nn[k] = g}

(* C6: in every J-task that has queried, the distances of a group are
   ascending, a group is accepted by the filter exactly when d1 is strictly
   below the squared ratio times d2 (equality is rejected), and every match
   of the task is the nearest neighbour of a group that passes this test. *)
C6_RatioTest ==
  \A j \in DOMAIN task :
    LET t == task[j] IN
      /\ \A g \in GroupIds(t) :
           /\ D1(t, g) <= D2(t, g)
           /\ (g \in Accepted(t)) <=> BelowRatio(D1(t, g), D2(t, g))
           /\ OnBoundary(D1(t, g), D2(t, g)) => g \notin Accepted(t)
      /\ \A k \in DOMAIN t.matches :
           \E g \in GroupIds(t) :
             /\ BelowRatio(D1(t, g), D2(t, g))
             /\ t.matches[k] = [i_ |-> t.indices[2 * g + 1].j_, j_ |-> t.indices[2 * g + 1].i_]

(* One group lies on the boundary with non-zero distances and is rejected,
   another group of the same task is accepted. *)
C6_Witness ==
  \E j \in DOMAIN task :
    LET t == task[j] IN
      /\ t.pc = "done"
      /\ \E g \in GroupIds(t) :
           D1(t, g) > 0 /\ OnBoundary(D1(t, g), D2(t, g)) /\ g \notin Accepted(t)
      /\ Accepted(t) # {}
      /\ fDistRatio[1] < fDistRatio[2]

NoDuplicateIndex(l) ==
  \A a, b \in DOMAIN l : a # b => l[a] # l[b]

NoDuplicateXY(l, I, J) ==
  \A a, b \in DOMAIN l :
    a # b => <<regions[I].pos[l[a].i_ + 1], regions[J].pos[l[a].j_ + 1]>>
             # <<regions[I].pos[l[b].i_ + 1], regions[J].pos[l[b].j_ + 1]>>

(* The accepted nearest neighbours of a task, as lines 192-198 emit them. *)
Emitted(t) ==
  [k \in DOMAIN t.nn |-> [i_ |-> t.indices[t.nn[k] * 2 + 1].j_,
                          j_ |-> t.indices[t.nn[k] * 2 + 1].i_]]

(* C7: every list the run stores, and every list a J-task carries to the
   insertion, holds no index pair twice and no two matches with the same
   positions in both images; the list is the coordinate deduplication of the
   index deduplication of the emitted matches. *)
C7_Deduplicated ==
  /\ \A k \in AddedKeys :
       /\ NoDuplicateIndex(map_PutativesMatches[k])
       /\ NoDuplicateXY(map_PutativesMatches[k], k[1], k[2])
  /\ \A j \in DOMAIN task :
       LET t == task[j] IN
         t.pc \in {"lock", "crit", "inc", "incw", "done"} =>
           /\ NoDuplicateIndex(t.matches)
           /\ NoDuplicateXY(t.matches, curI, t.J)
           /\ t.matches =
                IndMatchDecorator_getDeduplicated(
                  IndMatch_getDeduplicated(Emitted(t)), regions[curI].pos, regions[t.J].pos)

(* A stored list is shorter than the list of the accepted neighbours. *)
C7_Witness ==
  \E j \in DOMAIN task :
    /\ task[j].pc = "done"
    /\ <<curI, task[j].J>> \in AddedKeys
    /\ Len(map_PutativesMatches[<<curI, task[j].J>>]) < Len(task[j].nn)

(* C8: the logged answer is one the engine gives for J as the query and I
   as the base; every match stored under (I, J) has the base index of an
   accepted group's nearest neighbour first (an index into I) and the
   group's query index second (an index into J); and every accepted group is
   represented in the stored list by a match with the same positions. *)
C8_BaseIndexFirst ==
  \A p \in DOMAIN hist.knn :
    LET I == p[1]
        J == p[2]
        ans == hist.knn[p]
        G == 0..((Len(ans.indices) \div 2) - 1)
        Acc == {g \in G : BelowRatio(ans.distances[2 * g + 1], ans.distances[2 * g + 2])}
    IN /\ ans \in Match_HashedDescriptions(hashed_base_[J], MatOf(regions[J]),
                                           hashed_base_[I], MatOf(regions[I]))
       /\ \A g \in G : ans.indices[2 * g + 1].i_ < Count(J) /\ ans.indices[2 * g + 1].j_ < Count(I)
       /\ (p \in AddedKeys) =>
            \A k \in DOMAIN map_PutativesMatches[p] :
              LET m == map_PutativesMatches[p][k] IN
                /\ m.i_ < Count(I) /\ m.j_ < Count(J)
                /\ \E g \in Acc : m.i_ = ans.indices[2 * g + 1].j_ /\ m.j_ = ans.indices[2 * g + 1].i_
       /\ (p \in DOMAIN hist.outcome /\ p \notin DOMAIN map0) =>
            \A g \in Acc :
              /\ p \in DOMAIN map_PutativesMatches
              /\ \E k \in DOMAIN map_PutativesMatches[p] :
                   LET m == map_PutativesMatches[p][k] IN
                     <<regions[I].pos[m.i_ + 1], regions[J].pos[m.j_ + 1]>> =
                     <<regions[I].pos[ans.indices[2 * g + 1].j_ + 1],
                       regions[J].pos[ans.indices[2 * g + 1].i_ + 1]>>

(* A stored match whose two indices differ, between images of different
   sizes. *)
C8_Witness ==
  \E p \in AddedKeys :
    /\ Count(p[1]) # Count(p[2])
    /\ \E k \in DOMAIN map_PutativesMatches[p] :
         map_PutativesMatches[p][k].i_ # map_PutativesMatches[p][k].j_

(* C9: when cancellation is requested between two groups, after at least one
   group, no further group is started, the collection stays as it was at the
   request, and every entry the run added belongs to a group that was over
   at the request. *)
C9_CancelBetweenGroups ==
  (hist.atCancel.set /\ hist.atCancel.curI = 0 /\ hist.atCancel.finished # {}) =>
    /\ curI = 0
    /\ task = NoTask
    /\ hist.finished = hist.atCancel.finished
    /\ map_PutativesMatches = hist.atCancel.map
    /\ \A k \in AddedKeys : k[1] \in hist.atCancel.finished

(* The run ended on such a request with a group left and an entry added. *)
C9_Witness ==
  /\ hist.atCancel.set /\ hist.atCancel.curI = 0 /\ hist.atCancel.finished # {}
  /\ pc = "done"
  /\ rest # {}
  /\ AddedKeys # {}
  /\ \E I \in rest : Count(I) # 0

(* C10: without a provider, with a binary provider or with a scalar type
   other than unsigned char and float, nothing is grouped, built or matched,
   the progress sink is neither restarted nor incremented, and the
   collection is the one that was passed in. *)
C10_NoWorkWithoutDispatch ==
  Declined =>
    /\ pc \in {"entry", "done"}
    /\ map_PutativesMatches = map0
    /\ progress = [count |-> 0, expected |-> 0, restarts |-> 0]
    /\ map_Pairs = EmptyMap /\ used_index = {}
    /\ hasher.inits = 0 /\ zero_mean_descriptor.sets = 0
    /\ hashed_base_ = EmptyMap /\ ibuild = EmptyMap
    /\ curI = 0 /\ task = NoTask
    /\ hist.queried = {} /\ hist.outcome = EmptyMap

(* The call returned for a binary provider of unsigned char regions. *)
C10_Witness ==
  /\ pc = "done"
  /\ provider.present /\ provider.binary /\ provider.type = "uchar"
  /\ pairs # {}
  /\ map0 # EmptyMap

(* The pairs for which a unit of progress was counted. *)
Counted == {p \in pairs : hist.units[p] >= 1}

(* C11: every pair of the Pair_Set accounts for zero or one unit of progress,
   with or without cancellation; the count of the progress sink never
   exceeds the number of pairs that were counted, nor the total announced by
   restart, which is the number of pairs. *)
C11_AtMostOneUnit ==
  /\ \A p \in pairs : hist.units[p] \in {0, 1}
  /\ progress.count <= Cardinality(Counted)
  /\ progress.count <= progress.expected
  /\ progress.restarts = 1 => progress.expected = Cardinality(pairs)

(* A cancelled run is over: one pair was counted with its skipped group,
   another was skipped on cancellation and not counted. *)
C11_Witness ==
  /\ pc = "done"
  /\ cancel
  /\ \E p, q \in pairs :
       /\ p \in DOMAIN hist.outcome /\ hist.outcome[p] = "SKIPPED_EMPTY_I"
       /\ hist.units[p] = 1
       /\ q \in DOMAIN hist.outcome /\ hist.outcome[q] = "SKIPPED_CANCELLED"
       /\ hist.units[q] = 0
  /\ progress.count = 1

(* The J-tasks that are inside the increment of line 160 or line 222,
   between its read and its write of the count. *)
Incrementing == {j \in DOMAIN task : task[j].pc = "incw"}

(* C12: the count of the progress sink is never mutated by two J-tasks at a
   time: no two tasks are inside the increment together, and at the end of
   the run the count is the number of units that were counted. *)
C12_ProgressSerialized ==
  /\ Cardinality(Incrementing) <= 1
  /\ (pc = "done" /\ ~Declined) => progress.count = Cardinality(Counted)

(* The index-build tasks inside lines 122-125 and the J-tasks inside lines
   212-221. *)
IndexWriters == {I \in DOMAIN ibuild : ibuild[I].pc = "crit"}

Inserters == {j \in DOMAIN task : task[j].pc = "crit"}

(* C13: at most one index-build task at a time is writing into hashed_base_
   and at most one J-task at a time is inside the insertion into the
   collection; the two kinds of writers never overlap, and the lock names
   the one writer there is. *)
C13_WritersExclusive ==
  /\ Cardinality(IndexWriters) <= 1
  /\ Cardinality(Inserters) <= 1
  /\ IndexWriters = {} \/ Inserters = {}
  /\ \A I \in IndexWriters : lock = <<"index", I>>
  /\ \A j \in Inserters : lock = <<"match", j>>
  /\ (IndexWriters = {} /\ Inserters = {}) => lock = Free

(* A J-task is inside the insertion while another J-task of the group waits
   at line 210, after several index-build tasks have written. *)
C13_Witness ==
  /\ \E j, k \in DOMAIN task : task[j].pc = "crit" /\ task[k].pc = "lock"
  /\ Cardinality(DOMAIN hashed_base_) >= 2

(* An index build has started: a task of the loop of line 108 is past
   line 118, or an entry of hashed_base_ exists. *)
IndexBuildStarted ==
  \/ \E I \in DOMAIN ibuild : ibuild[I].pc # "wait"
  \/ hashed_base_ # EmptyMap
  \/ hist.built # EmptyMap

(* A pair is being matched or was matched: the loop of line 129 is entered. *)
MatchingStarted ==
  \/ pc = "match"
  \/ curI # 0 \/ task # NoTask
  \/ hist.outcome # EmptyMap \/ hist.queried # {} \/ hist.finished # {}

AllIndexBuilt ==
  /\ DOMAIN ibuild = used_index
  /\ \A I \in used_index :
       /\ ibuild[I].pc = "done"
       /\ I \in DOMAIN hist.built /\ hist.built[I] = 1
       /\ I \in DOMAIN hashed_base_

C14_PhasesInOrder ==
  /\ hasher.inits <= 1
  /\ zero_mean_descriptor.sets <= 1
  /\ used_index = {} => hasher.inits = 0
  /\ IndexBuildStarted =>
       /\ hasher.inits = 1
       /\ zero_mean_descriptor.sets = 1
  /\ (pc = "index" \/ MatchingStarted) =>
       /\ hasher.inits = (IF used_index = {} THEN 0 ELSE 1)
       /\ zero_mean_descriptor.sets = 1
  /\ MatchingStarted => AllIndexBuilt
  /\ \A I \in DOMAIN hashed_base_ : hashed_base_[I].zm = zero_mean_descriptor.value

(* C14: the hashing engine is initialized once, when an image is used, and
   the zero-mean descriptor is computed once, both before the first index
   build starts; once computed the zero-mean descriptor never changes, nor
   does the engine once initialized; every index build is over before the
   first pair is matched. *)
C14_PhaseOrdering ==
  /\ []C14_PhasesInOrder
  /\ [][/\ zero_mean_descriptor.sets = 1 => zero_mean_descriptor' = zero_mean_descriptor
        /\ hasher.inits = 1 => hasher' = hasher]_vars

(* Three images were indexed and a pair of them has been queried. *)
C14_Witness ==
  /\ Cardinality(used_index) = 3
  /\ hist.queried # {}
  /\ hasher.inits = 1 /\ zero_mean_descriptor.sets = 1
  /\ zero_mean_descriptor.value # <<0, 1>>

(* The images that a pair of the Pair_Set refers to. *)
Referenced == {I \in Images : \E p \in pairs : I = p[1] \/ I = p[2]}

C15_OneEntryPerImage ==
  /\ \A I \in DOMAIN hist.built : hist.built[I] = 1
  /\ hist.misses = {}
  /\ MatchingStarted =>
       /\ DOMAIN hashed_base_ = Referenced
       /\ DOMAIN hist.built = Referenced
       /\ \A I \in Referenced : hashed_base_[I].n = Count(I)

(* C15: when the matching phase begins hashed_base_ holds one entry for
   every image a pair refers to, images without region included, each
   written once by the index build; every lookup of the matching phase hits
   a key that is there, and no step of the matching phase changes
   hashed_base_. *)
C15_IndexCompleteAndFrozen ==
  /\ []C15_OneEntryPerImage
  /\ [][MatchingStarted => hashed_base_' = hashed_base_]_vars

(* A pair whose second image has no region was looked up and queried. *)
C15_Witness ==
  /\ pc = "match"
  /\ \E p \in hist.queried :
       /\ Count(p[2]) = 0
       /\ p[2] \in DOMAIN hashed_base_
       /\ hashed_base_[p[2]].n = 0

(* The grouping of lines 56-61 is over. *)
Grouped == pc \in {"init", "zeromean", "index", "match"} \/ (pc = "done" /\ ~Declined)

(* The pairs that the groups stand for. *)
GroupedPairs ==
  {<<a, map_Pairs[a][k]>> : <<a, k>> \in
     UNION {{<<a, k>> : k \in DOMAIN map_Pairs[a]} : a \in DOMAIN map_Pairs}}

Occurrences(seq, b) == Cardinality({k \in DOMAIN seq : seq[k] = b})

(* C16: after the grouping every pair (a, b) of the Pair_Set is in the group
   keyed by a, where b occurs once; the groups together stand for the
   Pair_Set and nothing else, so that no pair is filed under its second
   image; no group is empty, and used_index is the set of the identifiers
   that occur in a pair. *)
C16_Grouping ==
  Grouped =>
    /\ \A p \in pairs :
         /\ p[1] \in DOMAIN map_Pairs
         /\ Occurrences(map_Pairs[p[1]], p[2]) = 1
    /\ GroupedPairs = pairs
    /\ \A a \in DOMAIN map_Pairs :
         /\ map_Pairs[a] # <<>>
         /\ \A k \in DOMAIN map_Pairs[a] : Occurrences(map_Pairs[a], map_Pairs[a][k]) = 1
    /\ used_index = Referenced

(* A group of two pairs whose first image has a larger identifier than both
   second images. *)
C16_Witness ==
  /\ pc = "init"
  /\ \E a \in DOMAIN map_Pairs :
       /\ Len(map_Pairs[a]) = 2
       /\ a > map_Pairs[a][1] /\ a > map_Pairs[a][2]

(* The pairs of the group of first image I. *)
PairsOfGroup(I) == {p \in pairs : p[1] = I}

C17_EmptyGroupUntouched ==
  /\ curI # 0 => Count(curI) # 0
  /\ \A p \in pairs :
       Count(p[1]) = 0 =>
         /\ p \notin hist.queried
         /\ hist.ins[p] = 0
         /\ p \notin AddedKeys
         /\ p \in DOMAIN hist.outcome => hist.outcome[p] = "SKIPPED_EMPTY_I"
         /\ p[1] \in hist.finished => hist.units[p] = 1
  /\ \A p \in pairs :
       (pc = "done" /\ ~Declined /\ ~cancel /\ pairs = {p} /\ Count(p[1]) = 0) =>
         /\ progress.count = 1
         /\ map_PutativesMatches = map0

(* The step that takes a group whose first image has no region. *)
C17_EmptyGroupStep ==
  \A I \in rest \ rest' :
    Count(I) = 0 =>
      /\ ~cancel
      /\ progress'.count = progress.count + Cardinality(PairsOfGroup(I))
      /\ curI' = 0 /\ task' = NoTask
      /\ map_PutativesMatches' = map_PutativesMatches
      /\ hist'.queried = hist.queried
      /\ I \in hist'.finished

(* C17: when the first image of a group has no region and cancellation is
   not seen at the start of the group, no J-task of the group is started, no
   pair of it is queried or inserted, and the one step that takes the group
   advances the count by the number of its pairs, before the next group; for
   a Pair_Set of one such pair the run ends with a count of 1. *)
C17_EmptyFirstImage ==
  /\ []C17_EmptyGroupUntouched
  /\ [][C17_EmptyGroupStep]_vars

(* A group of two pairs was skipped for its empty first image. *)
C17_Witness ==
  /\ pc = "done"
  /\ ~cancel
  /\ \E I \in hist.finished :
       /\ Count(I) = 0
       /\ Cardinality(PairsOfGroup(I)) = 2
  /\ progress.count = 2
  /\ hist.queried = {}

Outcome(p) == IF p \in DOMAIN hist.outcome THEN hist.outcome[p] ELSE "NONE"

(* The positions a J-task may move to from a position past its checks. *)
NextPosition(where) ==
  CASE where = "lock" -> {"lock", "crit"}
    [] where = "crit" -> {"crit", "inc"}
    [] where = "inc" -> {"inc", "incw"}
    [] where = "incw" -> {"incw", "done"}
    [] OTHER -> {where}

C18_CancelledTaskDoesNothing ==
  \A p \in pairs :
    /\ Outcome(p) = "SKIPPED_CANCELLED" =>
         /\ hist.atCancel.set
         /\ p \notin hist.queried
         /\ hist.ins[p] = 0
         /\ hist.units[p] = 0
         /\ p \notin AddedKeys
    /\ (p \in hist.queried /\ TaskOver(p)) =>
         /\ hist.units[p] = 1
         /\ Outcome(p) \in {"INSERTED", "SKIPPED_EMPTY_RESULT"}
         /\ (Outcome(p) = "INSERTED") <=> (ExpectedMatches(p) # <<>>)
         /\ ExpectedMatches(p) # <<>> =>
              /\ hist.ins[p] = 1
              /\ p \in DOMAIN map_PutativesMatches
              /\ p \notin DOMAIN map0 => map_PutativesMatches[p] = ExpectedMatches(p)
    /\ (Outcome(p) = "SKIPPED_TYPE_MISMATCH" /\ TaskOver(p)) => hist.units[p] = 1

(* A step taken while cancellation is requested: a J-task at its check ends
   at once and touches nothing; a J-task past its check moves on to its next
   position, and the run does not end before the group's tasks are over. *)
C18_StepUnderCancel ==
  cancel =>
    /\ \A j \in DOMAIN task :
         task[j].pc # "done" =>
           /\ j \in DOMAIN task'
           /\ task[j].pc = "todo" => task'[j].pc \in {"todo", "done"}
           /\ task[j].pc # "todo" => task'[j].pc \in NextPosition(task[j].pc)
    /\ (\E j \in DOMAIN task : task[j].pc = "todo" /\ task'[j].pc = "done") =>
         /\ map_PutativesMatches' = map_PutativesMatches
         /\ progress' = progress
         /\ hashed_base_' = hashed_base_
         /\ hist'.queried = hist.queried /\ hist'.units = hist.units
    /\ (\E j \in DOMAIN task : task[j].pc # "done") => (pc' = pc /\ curI' = curI)
    /\ (curI = 0) => (curI' = 0 /\ task' = NoTask)

(* C18: a J-task that starts once cancellation is requested does no lookup,
   no query and no insertion and counts no unit; a J-task that passed its
   check before the request is not aborted: step by step it goes on to its
   insertion and its increment, and once it is over it has inserted its
   non-empty result and counted its unit; cancellation is looked at nowhere
   else than at the start of a group and of a J-task. *)
C18_CancelCheckpoints ==
  /\ []C18_CancelledTaskDoesNothing
  /\ [][C18_StepUnderCancel]_vars

(* Cancellation was requested while a group was running: one of its tasks
   had queried and inserted after the request, another started after it and
   was skipped. *)
C18_Witness ==
  /\ pc = "done"
  /\ hist.atCancel.set /\ hist.atCancel.curI # 0
  /\ \E p, q \in pairs :
       /\ p[1] = hist.atCancel.curI /\ q[1] = hist.atCancel.curI
       /\ Outcome(p) = "INSERTED"
       /\ p \notin DOMAIN hist.atCancel.map
       /\ p \in DOMAIN map_PutativesMatches
       /\ hist.units[p] = 1
       /\ Outcome(q) = "SKIPPED_CANCELLED"

TerminalStates ==
  {"SKIPPED_EMPTY_I", "SKIPPED_TYPE_MISMATCH", "SKIPPED_CANCELLED", "INSERTED",
   "SKIPPED_EMPTY_RESULT"}

(* The terminal state of a pair's task: the one its J-task or its group
   ended in; a pair whose group was left out by the break of line 132 is
   skipped on cancellation. *)
TerminalState(p) ==
  IF p \in DOMAIN hist.outcome THEN hist.outcome[p]
  ELSE IF pc = "done" /\ cancel /\ p[1] \in rest THEN "SKIPPED_CANCELLED"
  ELSE "PENDING"

Terminated == pc = "done"

C19_Classified ==
  (Terminated /\ ~Declined) =>
    \A p \in pairs : TerminalState(p) \in TerminalStates

C19_CountComplete ==
  (Terminated /\ ~Declined /\ ~cancel) =>
    /\ \A p \in pairs : TerminalState(p) # "SKIPPED_CANCELLED"
    /\ progress.count = Cardinality(pairs)

(* C19: under fair scheduling the run terminates; at termination the task of
   every pair is in one of the five terminal states; without a request of
   cancellation no task ends skipped on cancellation and the count of the
   progress sink is the number of pairs. *)
C19_TerminatesClassified ==
  /\ <>Terminated
  /\ []C19_Classified
  /\ []C19_CountComplete

(* Every pair of the Pair_Set is recorded with its smaller identifier first. *)
RecordedAscending == \A p \in pairs : p[1] <= p[2]

KeysAscending == \A k \in DOMAIN map_PutativesMatches : k[1] <= k[2]

(* C20 as stated: every key (I, J) of the collection has I <= J, whatever
   the order in which the pairs of the Pair_Set are recorded. *)
C20_KeysAscending == KeysAscending

(* C20, amended: every key the run adds is a pair of the Pair_Set in the
   order in which it is recorded, so that every key (I, J) of the collection
   has I <= J when every pair is recorded with its smaller identifier first;
   the key of a pair recorded with its larger identifier first has I > J. *)
C20_KeysAsRecorded ==
  /\ \A k \in AddedKeys : k \in pairs
  /\ RecordedAscending => KeysAscending
  /\ \A p \in pairs :
       (p[1] > p[2] /\ hist.ins[p] = 1) =>
         /\ p \in DOMAIN map_PutativesMatches
         /\ <<p[2], p[1]>> \notin AddedKeys

(* Two pairs recorded in ascending order were both inserted. *)
C20_Witness ==
  /\ pc = "done"
  /\ RecordedAscending
  /\ Cardinality(AddedKeys) = 2

====
